---- MODULE Spec2Model ----
(***************************************************************************)
(* Sequential multi-account orchestration engine of main.js: the retry     *)
(* primitive (retryWithBackoff), the authentication handshake (getToken,   *)
(* checkTokenValid), the daily-task workflow (executeDailyTasks,           *)
(* createAgent, createRequest), the per-account driver (processAccount)    *)
(* and the cycle loop (main).                                              *)
(*                                                                         *)
(* One action per suspension point (await) of the code: an action is the   *)
(* return of the awaited collaborator call, with the outcome chosen by the *)
(* environment, followed by the synchronous code up to the next await.     *)
(* The wall clock advances by the duration of every sleep; collaborator    *)
(* calls take no time. The stretches of main() between two awaits are cut  *)
(* at "start", "cycle", "account", "pace" and "summary", where the program *)
(* is about to run the statements that lead to its next await.             *)
(***************************************************************************)
EXTENDS Integers, Sequences, FiniteSets, TLC

(***************************************************************************)
(* Program constants and configuration                                     *)
(***************************************************************************)
\* the keys new ethers.Wallet accepts (well-formed 32-byte hex keys)
WalletKeys == {"0xKEY0", "0xKEY1"}
\* .env after parsePrivateKeys: the ordered lists of accepted keys that are
\* explored. parsePrivateKeys accepts every 0x... string longer than 10, so a
\* list may hold keys that new ethers.Wallet rejects, and may be empty
KeyLists ==
    {<<>>,
     <<"0xKEY0", "0xKEY1">>, <<"0xMALFORMED0", "0xKEY1">>,
     <<"0xKEY0", "0xMALFORMED1">>, <<"0xMALFORMED0", "0xMALFORMED1">>}
WAIT_HOURS == 12
MAX_RETRIES == 3
RETRY_DELAY == 5000
InterAccountDelay == 3000
RecoveryDelay == 300000
SigintExitCode == 0
FatalExitCode == 1
UncaughtExitCode == 1
TickPeriod == 60000
DaySeconds == 24 * 60 * 60

(***************************************************************************)
(* Bounds of the model                                                     *)
(***************************************************************************)
MaxCycles == 2          \* cycles of the while (true) loop that are explored
MaxFaults == 1          \* operations (collaborators, logger) that misbehave over one run
MaxAttemptsArg == 4     \* largest retries argument given to retryWithBackoff alone

(***************************************************************************)
(* Values exchanged with the collaborators                                 *)
(***************************************************************************)
Null == <<>>
Some(x) == <<x>>
IsNull(o) == o = <<>>
Val(o) == o[1]

Errors == {"ETIMEDOUT", "ECONNRESET"}
NoError == "none"
\* the error a logging statement throws when the logger fails
LoggerError == "logger failure"

\* new ethers.Wallet(private_key).address
Address(private_key) == "addr(" \o private_key \o ")"

Flag == {"true", "false", "undefined"}
\* finish_time values the task-status endpoint hands out (epoch seconds)
FinishTimes == {39603}
\* the ticks of the countdown's progress ticker that are explored: the first
\* and the last that write (the tick at the end of the 12 hours only clears)
Ticks == {1, 719}
\* token_expire_time values the login endpoint hands out (epoch seconds)
ExpireTimes == {43206}

NoResponse == [data |-> FALSE]
VerifyResponses ==
    {NoResponse} \cup
    [data : {TRUE}, is_create_agent : Flag, is_create_request : Flag,
     finish_time : FinishTimes]
\* data.id of a creation response: 0 stands for a missing identifier
CreateResponses == {NoResponse} \cup [data : {TRUE}, id : {0, 7}]
\* contractCall result: hash "" stands for a missing hash
TxResponses == {NoResponse} \cup [data : {TRUE}, hash : {"", "0xTX"}]

ResponsesOf(fn) ==
    CASE fn = "verifyDailyTask" -> VerifyResponses
      [] fn \in {"createNewAgent", "createNewRequest"} -> CreateResponses
      [] fn \in {"addNewAgent", "addNewRequest"} -> TxResponses
      [] OTHER -> [data : {TRUE}, value : {1, 2}]

\* a response the caller of retryWithBackoff will reject
Malformed(fn, resp) ==
    CASE ~resp.data -> TRUE
      [] fn = "verifyDailyTask" ->
            resp.is_create_agent = "undefined" \/ resp.is_create_request = "undefined"
      [] fn \in {"createNewAgent", "createNewRequest"} -> resp.id = 0
      [] fn \in {"addNewAgent", "addNewRequest"} -> resp.hash = ""
      [] OTHER -> FALSE

\* how generateAIResponse settles: rejected, or a text, by what JSON.parse makes
\* of it (garbage: a SyntaxError; null; an object with its two fields)
GeneratedTexts ==
    {[kind |-> "rejected", name |-> "", description |-> ""],
     [kind |-> "garbage", name |-> "", description |-> ""],
     [kind |-> "null", name |-> "", description |-> ""]} \cup
    [kind : {"object"}, name : {"", "N"}, description : {"", "D"}]

\* getUserData payload for an account
UserData(k) == [uid |-> 1001 + k, total_point |-> 10, days |-> 1]

VARIABLES
    PRIVATE_KEYS,    \* const PRIVATE_KEYS = parsePrivateKeys()
    pc,              \* the await the program is suspended at
    cycleCount,      \* main: let cycleCount
    i,               \* main: loop index of the account being processed
    accountsStats,   \* const accountsStats = {}
    tokenDataArray,  \* main: carried-forward session of every account
    tokenData,       \* processAccount: parameter / local tokenData
    task,            \* executeDailyTasks: locals (flags, cooldown, taskCompleted)
    loginData,       \* getToken: loginResponse.data while setInviter is pending
    clock,           \* Date.now(), milliseconds
    rState,          \* retryWithBackoff: idle / attempt / sleeping / returned / threw
    rFn,             \* retryWithBackoff: the wrapped operation
    rI,              \* retryWithBackoff: loop variable i
    rRetries,        \* retryWithBackoff: parameter retries
    rDelay,          \* retryWithBackoff: parameter delay
    rResult,         \* retryWithBackoff: value returned to the caller
    rError,          \* retryWithBackoff: error thrown to the caller
    rCalls,          \* observation: invocations of fn by the current retryWithBackoff
    rResolved,       \* observation: values fn resolved with, in order
    rWaits,          \* observation: sleeps of the current retryWithBackoff
    rRaised,         \* observation: errors raised by fn, in order
    faults,          \* observation: operations that misbehaved so far
    started,         \* observation: processAccount invocations per account, this cycle
    finished,        \* observation: processAccount returns per account, this cycle
    issued,          \* observation: calls made by the current account run (collaborators, createAgent, createRequest)
    authCount,       \* observation: getToken invocations of the current account run
    outcome,         \* observation: how the current account run ended
    statsBefore,     \* observation: accountsStats when the current account run began
    tokenBefore,     \* observation: carried-forward session when the run began
    startedAt,       \* observation: Date.now() when the current account run began
    faultsBefore,    \* observation: faults when the current account run began
    authTrace,       \* observation: handshake calls of the current account run, in order
    paced,           \* observation: inter-account waits after each account, this cycle
    cooldownFrom,    \* observation: Date.now() when the last summary was printed
    exitCode,        \* process.exit(code), null while the process runs
    report,          \* SIGINT handler: the final statistics printed
    exitFrom         \* observation: where the program was when SIGINT arrived

vars == <<PRIVATE_KEYS, pc, cycleCount, i, accountsStats, tokenDataArray, tokenData, task, loginData,
          clock, rState, rFn, rI, rRetries, rDelay, rResult, rError, rCalls, rResolved,
          rWaits, rRaised, faults, started, finished, issued, authCount, outcome, statsBefore,
          tokenBefore, startedAt, faultsBefore, authTrace, paced, cooldownFrom, exitCode,
          report, exitFrom>>

Accounts == 0 .. (Len(PRIVATE_KEYS) - 1)

retryVars == <<rState, rFn, rI, rRetries, rDelay, rResult, rError, rCalls, rResolved,
               rWaits, rRaised>>
mainVars == <<cycleCount, i, accountsStats, tokenDataArray>>
localVars == <<tokenData, task, loginData>>
runObs == <<started, finished, issued, authCount, outcome, statsBefore, tokenBefore,
            startedAt>>
\* the observations of one account run that only processAccount's entry sets
entryObs == <<faultsBefore>>
\* the observations of the cycle loop
loopObs == <<paced, cooldownFrom>>
\* what the SIGINT handler sets
sigVars == <<exitCode, report, exitFrom>>

(***************************************************************************)
(* Pure helpers                                                            *)
(***************************************************************************)
\* Math.floor(Date.now() / 1000)
NowSeconds(ms) == ms \div 1000

\* variant: the exponent taken from the attempt number instead of the loop index
WaitTimeFromAttemptNumber(delay, k) == delay * (2 ^ (k + 1))

\* retryWithBackoff: const waitTime = delay * Math.pow(2, i)
WaitTime(delay, k) == delay * (2 ^ k)

\* retryWithBackoff: if (i === retries - 1) throw error
LastAttempt(k, retries) == k = retries - 1

\* variant: the last error wrapped in a new one
ThrownErrorWrapped(error) == "retries exhausted: " \o error

\* retryWithBackoff: the error thrown to the caller when the last attempt failed
ThrownError(error) == error

\* variant: a token still taken as valid at the very second it expires
checkTokenValidAtExpiry(token_expire_time, ms) == ~(NowSeconds(ms) > token_expire_time)

\* checkTokenValid: false iff now >= token_expire_time
checkTokenValid(token_expire_time, ms) == ~(NowSeconds(ms) >= token_expire_time)

\* variant: the day is not added to finish_time
SecondsUntilFinish(finish_time, ms) == finish_time - NowSeconds(ms)

\* executeDailyTasks: cooldownEndTime - now
SecondsUntilNextTask(finish_time, ms) == (finish_time + DaySeconds) - NowSeconds(ms)

\* JS truthiness of a completion flag as the code tests it (!flag)
Truthy(flag) == flag = "true"

\* the fields of the generated text pass the validation of the flow
ValidContent(text) == text.kind = "object" /\ text.name # "" /\ text.description # ""

InitStats(ms) ==
    [uid |-> Null, totalPoint |-> 0, days |-> 0, agents |-> 0, requests |-> 0,
     txs |-> 0, errors |-> 0, lastRun |-> Null, startTime |-> ms,
     cooldownSeconds |-> 0]

NoTask ==
    [is_create_agent |-> "undefined", is_create_request |-> "undefined",
     finish_time |-> 0, now |-> 0, secondsUntilNextTask |-> 0, taskCompleted |-> FALSE]

NoLogin == [token |-> <<>>, token_expire_time |-> 0]

\* getToken: return { ...loginResponse.data, address }
SessionOf(data, address) ==
    Some([token |-> data.token, token_expire_time |-> data.token_expire_time,
          address |-> address])

(***************************************************************************)
(* Mutations of one AccountStats record                                    *)
(***************************************************************************)
\* accountsStats[accountIndex].errors++
WithError(s) == [s EXCEPT !.errors = @ + 1]

\* variant: the agent counted, its transaction not
WithAgentOnly(s) == [s EXCEPT !.agents = @ + 1]

\* variant: the transaction counted, the agent not
WithAgentTxOnly(s) == [s EXCEPT !.txs = @ + 1]

\* createAgent: accountsStats[accountIndex].agents++; .txs++
WithAgent(s) == [s EXCEPT !.agents = @ + 1, !.txs = @ + 1]

\* variant: the request counted, its transaction not
WithRequestOnly(s) == [s EXCEPT !.requests = @ + 1]

\* createRequest: accountsStats[accountIndex].requests++; .txs++
WithRequest(s) == [s EXCEPT !.requests = @ + 1, !.txs = @ + 1]

\* executeDailyTasks: lastRun and cooldownSeconds, set before return true
WithLastRun(s, ms, seconds) ==
    [s EXCEPT !.lastRun = Some(ms), !.cooldownSeconds = seconds]

\* processAccount: the three profile fields taken from userData.data
WithUserData(s, d) ==
    [s EXCEPT !.uid = Some(d.uid), !.totalPoint = d.total_point, !.days = d.days]

\* one misbehaving operation is spent: a collaborator call that rejects or
\* answers without its data, or the logger, whose failure makes one logging
\* statement throw and may last through the logging of the catch blocks the
\* exception then reaches (retryWithBackoff taken alone has no budget: each of
\* its attempts may fail)
Fault ==
    /\ pc = "retry" \/ faults < MaxFaults
    /\ faults' = faults + 1

\* PRIVATE_KEYS[i]
KeyOf(k) == PRIVATE_KEYS[k + 1]


(***************************************************************************)
(* retryWithBackoff(fn, retries, delay)                                    *)
(***************************************************************************)
\* for (let i = 0; i < retries; i++)
LoopTest(k, retries) == k < retries

\* variant: the result of fn() is not returned before the last iteration
AttemptStepNoReturn(k, retries, ok) ==
    IF LastAttempt(k, retries) THEN (IF ok THEN "returned" ELSE "threw")
    ELSE "sleeping"

\* where one iteration leaves the loop: return await fn() on success; on failure
\* throw error after the last attempt, else await sleep(waitTime)
AttemptStep(k, retries, ok) ==
    IF ok THEN "returned"
    ELSE IF LastAttempt(k, retries) THEN "threw"
    ELSE "sleeping"

\* the call: the first loop test and, when it passes, the first fn()
BeginRetry(fn, retries, delay) ==
    /\ rFn' = fn
    /\ rI' = 0
    /\ rRetries' = retries
    /\ rDelay' = delay
    /\ rResult' = NoResponse
    /\ rError' = NoError
    /\ rWaits' = <<>>
    /\ rRaised' = <<>>
    /\ rResolved' = <<>>
    /\ rCalls' = IF LoopTest(0, retries) THEN 1 ELSE 0
    /\ rState' = IF LoopTest(0, retries) THEN "attempt" ELSE "returned"

\* the caller has taken the result or the error
RetryIdle ==
    /\ rState' = "idle"
    /\ rFn' = "none"
    /\ rI' = 0
    /\ rRetries' = 0
    /\ rDelay' = 0
    /\ rResult' = NoResponse
    /\ rError' = NoError
    /\ rWaits' = <<>>
    /\ rRaised' = <<>>
    /\ rResolved' = <<>>
    /\ rCalls' = 0

\* the loop body after fn() settled, ok or not. Before it sleeps the catch
\* logs the attempt (logger.warn, outside any try of the function): when that
\* statement throws (~warned) retryWithBackoff rejects at once with the
\* logger's error, no sleep is armed and fn is not called again
AfterAttempt(ok, resp, error, warned) ==
    /\ rState' = IF AttemptStep(rI, rRetries, ok) = "sleeping" /\ ~warned
                     THEN "threw" ELSE AttemptStep(rI, rRetries, ok)
    /\ rResult' = IF rState' = "returned" THEN resp ELSE rResult
    /\ rError' = IF rState' # "threw" THEN rError
                 ELSE IF AttemptStep(rI, rRetries, ok) = "threw"
                         THEN ThrownError(error) ELSE LoggerError
    /\ rWaits' = IF rState' = "sleeping"
                    THEN Append(rWaits, WaitTime(rDelay, rI)) ELSE rWaits

\* fn() resolved
RetryAttemptOk ==
    /\ pc # "exited"
    /\ rState = "attempt"
    /\ \E resp \in ResponsesOf(rFn) :
          /\ IF Malformed(rFn, resp) THEN Fault ELSE UNCHANGED faults
          /\ rResolved' = Append(rResolved, resp)
          /\ AfterAttempt(TRUE, resp, NoError, TRUE)
    /\ UNCHANGED <<rFn, rI, rRetries, rDelay, rCalls, rRaised>>
    /\ UNCHANGED <<pc, mainVars, localVars, clock, runObs>>
    /\ UNCHANGED <<entryObs, authTrace, loopObs, sigVars>>
    /\ UNCHANGED PRIVATE_KEYS

\* the operations that misbehave when fn() rejects: fn, once for all the
\* attempts of one retryWithBackoff (an operation that is down rejects every
\* attempt), and the logger when the warning of the catch throws
Misbehaving(raised, warned) ==
    (IF raised = <<>> THEN 1 ELSE 0) + (IF warned THEN 0 ELSE 1)

\* fn() rejected: catch (error)
RetryAttemptFail ==
    /\ pc # "exited"
    /\ rState = "attempt"
    /\ \E error \in Errors, warned \in BOOLEAN :
          /\ warned \/ ~LastAttempt(rI, rRetries)
          /\ pc = "retry" \/ faults + Misbehaving(rRaised, warned) <= MaxFaults
          /\ faults' = faults + Misbehaving(rRaised, warned)
          /\ rRaised' = Append(rRaised, error)
          /\ AfterAttempt(FALSE, NoResponse, error, warned)
    /\ UNCHANGED <<rFn, rI, rRetries, rDelay, rCalls, rResolved>>
    /\ UNCHANGED <<pc, mainVars, localVars, clock, runObs>>
    /\ UNCHANGED <<entryObs, authTrace, loopObs, sigVars>>
    /\ UNCHANGED PRIVATE_KEYS

\* await sleep(waitTime) is over: i++, the loop test, the next fn()
RetrySleep ==
    /\ pc # "exited"
    /\ rState = "sleeping"
    /\ clock' = clock + rWaits[Len(rWaits)]
    /\ rI' = rI + 1
    /\ IF LoopTest(rI + 1, rRetries)
          THEN /\ rState' = "attempt"
               /\ rCalls' = rCalls + 1
          ELSE /\ rState' = "returned"
               /\ rCalls' = rCalls
    /\ UNCHANGED <<rFn, rRetries, rDelay, rResult, rError, rWaits, rRaised, rResolved>>
    /\ UNCHANGED <<pc, mainVars, localVars, faults, runObs>>
    /\ UNCHANGED <<entryObs, authTrace, loopObs, sigVars>>
    /\ UNCHANGED PRIVATE_KEYS

RetryDone == rState \in {"returned", "threw"}

(***************************************************************************)
(* Initial state: the module is loaded (const accountsStats = {}, the      *)
(* SIGINT handler registered) and main() is about to be called             *)
(***************************************************************************)
Init ==
    /\ PRIVATE_KEYS \in KeyLists
    /\ pc = "start"
    /\ cycleCount = 0
    /\ i = 0
    /\ clock = 0
    /\ accountsStats = <<>>
    /\ tokenDataArray = [k \in Accounts |-> Null]
    /\ tokenData = Null
    /\ task = NoTask
    /\ loginData = NoLogin
    /\ rState = "idle"
    /\ rFn = "none"
    /\ rI = 0
    /\ rRetries = 0
    /\ rDelay = 0
    /\ rResult = NoResponse
    /\ rError = NoError
    /\ rCalls = 0
    /\ rResolved = <<>>
    /\ rWaits = <<>>
    /\ rRaised = <<>>
    /\ faults = 0
    /\ started = [k \in Accounts |-> 0]
    /\ finished = [k \in Accounts |-> 0]
    /\ issued = {}
    /\ authCount = 0
    /\ outcome = "none"
    /\ statsBefore = [k \in Accounts |-> InitStats(0)]
    /\ tokenBefore = Null
    /\ startedAt = 0
    /\ faultsBefore = 0
    /\ authTrace = <<>>
    /\ paced = [k \in Accounts |-> 0]
    /\ cooldownFrom = Null
    /\ exitCode = Null
    /\ report = Null
    /\ exitFrom = Null

(***************************************************************************)
(* Exceptions that leave the cycle loop                                    *)
(***************************************************************************)
\* main().catch: the fatal error is logged, process.exit(1)
FatalExit ==
    /\ pc' = "exited"
    /\ exitCode' = Some(FatalExitCode)
    /\ UNCHANGED <<report, exitFrom>>

\* catch of the while loop: the error is logged and sleep(300000) awaited; when
\* the logging of the catch throws in its turn, main() rejects
LoopCatch ==
    \/ /\ pc' = "recovery"
       /\ UNCHANGED sigVars
    \/ FatalExit

(***************************************************************************)
(* processAccount returns: main stores the result and tests the loop index *)
(***************************************************************************)
\* variant: the wait follows every account, the last one included
PaceAfterEveryAccount(k) == k < Len(PRIVATE_KEYS)

\* main: if (i < PRIVATE_KEYS.length - 1) await sleep(3000)
PaceAfter(k) == k < Len(PRIVATE_KEYS) - 1

\* variant: the result is stored for every account
AccountReturnsToAll(result, how) ==
    /\ tokenDataArray' = [k \in Accounts |-> result]
    /\ finished' = [finished EXCEPT ![i] = @ + 1]
    /\ outcome' = how
    /\ tokenData' = Null
    /\ loginData' = NoLogin
    /\ pc' = IF PaceAfter(i) THEN "pace" ELSE "summary"

AccountReturns(result, how) ==
    /\ tokenDataArray' = [tokenDataArray EXCEPT ![i] = result]
    /\ finished' = [finished EXCEPT ![i] = @ + 1]
    /\ outcome' = how
    /\ tokenData' = Null
    /\ loginData' = NoLogin
    /\ pc' = IF PaceAfter(i) THEN "pace" ELSE "summary"

\* processAccount returns td, the stats record of the account being s
ReturnsWith(s, td, how) ==
    /\ accountsStats' = [accountsStats EXCEPT ![i] = s]
    /\ AccountReturns(td, how)
    /\ UNCHANGED sigVars

\* processAccount rejects: an exception of its opening lines, which are outside
\* its try, or of the logging of its catch. main stores no result for the
\* account and the catch of the while loop runs
ProcessAccountRejects(s) ==
    /\ accountsStats' = [accountsStats EXCEPT ![i] = s]
    /\ outcome' = "rejected"
    /\ tokenData' = Null
    /\ loginData' = NoLogin
    /\ UNCHANGED <<tokenDataArray, finished>>
    /\ LoopCatch

\* an exception reaches the catch of processAccount, the local tokenData being
\* td: the error is logged, errors++, the separator is logged, return
\* tokenData. When the logging before errors++ throws in its turn
\* processAccount rejects with the error not counted, and when the separator
\* after it throws processAccount rejects with the error counted
ProcessAccountCatches(s, td) ==
    \/ ReturnsWith(WithError(s), td, "threw")
    \/ ProcessAccountRejects(s)
    \/ ProcessAccountRejects(WithError(s))

\* an exception is thrown inside the try of executeDailyTasks, the session of
\* the run being td. Its catch logs, errors++, return false, and processAccount
\* reports the failed task run and returns td; when the logging of that catch
\* throws the exception reaches the catch of processAccount; when the catch
\* has counted the error and the report of processAccount throws, the catch of
\* processAccount runs after it
ExecuteDailyTasksCatches(s, td) ==
    \/ ProcessAccountCatches(s, td)
    \/ ProcessAccountCatches(WithError(s), td)

\* getToken: if (!private_key), a key that is "" or undefined
KeyIsSet(private_key) == private_key \notin {"", "undefined"}

\* new ethers.Wallet(private_key) returns a wallet instead of throwing
WalletConstructs(private_key) == private_key \in WalletKeys

\* getToken(private_key, accountIndex) up to its first await, called by a run
\* that carried the session `carried`, had called getToken n times and issued
\* `calls` (in the order `trace` for the handshake).
\*  - Without a key, or with a key new ethers.Wallet throws on (caught, return
\*    null), getToken returns null before any call and processAccount returns
\*    null; else getNonce is awaited.
\*  - A logging statement inside the try throws (the missing key, the wallet
\*    address, the loader of the nonce): the catch returns null, also for a
\*    well-formed key.
\*  - The header, which is outside the try, or the logging of the catch throws:
\*    getToken rejects, the assignment of processAccount is not made and its
\*    catch returns the tokenData the run was called with.
\*  - getToken returned null and the line of processAccount that reports it
\*    throws: the catch of processAccount returns the null just assigned.
BeginGetToken(private_key, carried, n, calls, trace) ==
    /\ authCount' = n + 1
    /\ \/ /\ UNCHANGED <<faults, sigVars, accountsStats>>
          /\ IF KeyIsSet(private_key) /\ WalletConstructs(private_key)
                THEN /\ pc' = "getNonce"
                     /\ issued' = calls \cup {"getNonce"}
                     /\ authTrace' = Append(trace, "getNonce")
                     /\ tokenData' = carried
                     /\ outcome' = "running"
                     /\ UNCHANGED <<tokenDataArray, finished, loginData>>
                ELSE /\ issued' = calls
                     /\ authTrace' = trace
                     /\ AccountReturns(Null, "authFailed")
       \/ /\ Fault
          /\ issued' = calls
          /\ authTrace' = trace
          /\ \/ /\ ~KeyIsSet(private_key) \/ WalletConstructs(private_key)
                /\ ReturnsWith(accountsStats[i], Null, "authFailed")
             \/ ProcessAccountCatches(accountsStats[i], carried)
             \/ /\ ~(KeyIsSet(private_key) /\ WalletConstructs(private_key))
                /\ ProcessAccountCatches(accountsStats[i], Null)


\* variant: executeDailyTasks is not awaited, processAccount returns at once
BeginDailyTasksNotAwaited(td) ==
    /\ pc' = IF PaceAfter(i) THEN "pace" ELSE "summary"
    /\ issued' = issued \cup {"verifyDailyTask"}
    /\ BeginRetry("verifyDailyTask", MAX_RETRIES, RETRY_DELAY)
    /\ tokenData' = td
    /\ loginData' = NoLogin
    /\ UNCHANGED <<faults, sigVars, accountsStats, tokenDataArray, finished, outcome>>

\* executeDailyTasks(tokenData, accountIndex) is entered with the session td:
\* retryWithBackoff(verifyDailyTask) is awaited. When its banner (outside its
\* try) or the line that announces the check (inside) throws, the run ends in
\* a catch with one more error and verifyDailyTask is never called
BeginDailyTasks(td) ==
    \/ /\ pc' = "verifyDailyTask"
       /\ issued' = issued \cup {"verifyDailyTask"}
       /\ BeginRetry("verifyDailyTask", MAX_RETRIES, RETRY_DELAY)
       /\ tokenData' = td
       /\ loginData' = NoLogin
       /\ UNCHANGED <<faults, sigVars, accountsStats, tokenDataArray, finished, outcome>>
    \/ /\ Fault
       /\ ExecuteDailyTasksCatches(accountsStats[i], td)
       /\ UNCHANGED issued
       /\ RetryIdle


(***************************************************************************)
(* main: the cycle loop                                                    *)
(***************************************************************************)
\* main() up to while (true): the banner, the test of PRIVATE_KEYS.length, the
\* stats of every account, tokenDataArray, cycleCount; a statement that throws
\* before the loop makes main() reject
Startup ==
    /\ pc = "start"
    /\ \/ /\ Fault
          /\ FatalExit
          /\ UNCHANGED accountsStats
       \/ /\ UNCHANGED <<faults, sigVars>>
          /\ IF Len(PRIVATE_KEYS) = 0
                THEN /\ pc' = "returned"
                     /\ UNCHANGED accountsStats
                ELSE /\ pc' = "cycle"
                     /\ accountsStats' = [k \in Accounts |-> InitStats(clock)]
    /\ UNCHANGED <<cycleCount, i, tokenDataArray, localVars, clock, retryVars, runObs>>
    /\ UNCHANGED <<entryObs, authTrace, loopObs>>
    /\ UNCHANGED PRIVATE_KEYS

\* cycleCount++ and the for loop is entered
CycleStart ==
    /\ pc = "cycle"
    /\ cycleCount < MaxCycles
    /\ cycleCount' = cycleCount + 1
    /\ i' = 0
    /\ pc' = "account"
    /\ started' = [k \in Accounts |-> 0]
    /\ finished' = [k \in Accounts |-> 0]
    /\ UNCHANGED <<accountsStats, tokenDataArray, localVars, clock, retryVars, faults,
                   issued, authCount, outcome, statsBefore, tokenBefore, startedAt>>
    /\ paced' = [k \in Accounts |-> 0]
    /\ UNCHANGED <<entryObs, authTrace, cooldownFrom, sigVars>>
    /\ UNCHANGED PRIVATE_KEYS

\* processAccount: if (!tokenData) getToken, else checkTokenValid
NeedsToken(carried) == IsNull(carried)

\* processAccount(PRIVATE_KEYS[i], i, tokenDataArray[i]) up to its first await.
\* Its opening lines are outside its try: when one of them throws processAccount
\* rejects, the account having been started
StartAccount ==
    /\ pc = "account"
    /\ started' = [started EXCEPT ![i] = @ + 1]
    /\ statsBefore' = accountsStats
    /\ tokenBefore' = tokenDataArray[i]
    /\ startedAt' = clock
    /\ faultsBefore' = faults
    /\ task' = NoTask
    /\ \/ /\ Fault
          /\ ProcessAccountRejects(accountsStats[i])
          /\ authCount' = 0
          /\ issued' = {}
          /\ authTrace' = <<>>
       \/ IF NeedsToken(tokenDataArray[i])
             THEN BeginGetToken(KeyOf(i), tokenDataArray[i], 0, {}, <<>>)
             ELSE /\ pc' = "checkTokenValid"
                  /\ authCount' = 0
                  /\ issued' = {}
                  /\ authTrace' = <<>>
                  /\ tokenData' = tokenDataArray[i]
                  /\ outcome' = "running"
                  /\ UNCHANGED <<faults, sigVars, accountsStats, tokenDataArray,
                                 finished, loginData>>
    /\ UNCHANGED <<cycleCount, i, clock, retryVars>>
    /\ UNCHANGED loopObs
    /\ UNCHANGED PRIVATE_KEYS


\* await checkTokenValid(tokenData.token_expire_time), then executeDailyTasks
\* with the session, or getToken when it has expired. The line checkTokenValid
\* logs and the line that announces the re-authentication are inside the try of
\* processAccount: when one throws its catch returns the session
CheckToken ==
    /\ pc = "checkTokenValid"
    /\ \/ /\ Fault
          /\ ProcessAccountCatches(accountsStats[i], tokenData)
          /\ UNCHANGED <<authCount, issued, authTrace, retryVars>>
       \/ IF checkTokenValid(Val(tokenData).token_expire_time, clock)
             THEN /\ BeginDailyTasks(tokenData)
                  /\ UNCHANGED <<authCount, authTrace>>
             ELSE /\ BeginGetToken(KeyOf(i), tokenData, authCount, issued, authTrace)
                  /\ UNCHANGED retryVars
    /\ UNCHANGED <<cycleCount, i, task, clock, started, statsBefore, tokenBefore,
                   startedAt>>
    /\ UNCHANGED <<entryObs, loopObs>>
    /\ UNCHANGED PRIVATE_KEYS


\* await sleep(3000) is over: i++
Pace ==
    /\ pc = "pace"
    /\ clock' = clock + InterAccountDelay
    /\ i' = i + 1
    /\ pc' = "account"
    /\ UNCHANGED <<cycleCount, accountsStats, tokenDataArray, localVars, retryVars,
                   faults, runObs>>
    /\ paced' = [paced EXCEPT ![i] = @ + 1]
    /\ UNCHANGED <<entryObs, authTrace, cooldownFrom, sigVars>>
    /\ UNCHANGED PRIVATE_KEYS

\* the summary of all accounts is printed, countdownTimer(WAIT_HOURS) awaited
Summary ==
    /\ pc = "summary"
    /\ pc' = "countdown"
    /\ UNCHANGED <<mainVars, localVars, clock, retryVars, faults, runObs>>
    /\ cooldownFrom' = Some(clock)
    /\ UNCHANGED <<entryObs, authTrace, paced, sigVars>>
    /\ UNCHANGED PRIVATE_KEYS

\* variant: the hours taken for minutes
CountdownOfMinutes ==
    /\ pc = "countdown"
    /\ clock' = clock + (WAIT_HOURS * 60) * 1000
    /\ \/ /\ pc' = "cycle"
          /\ UNCHANGED <<faults, sigVars>>
       \/ /\ Fault
          /\ LoopCatch
    /\ UNCHANGED <<mainVars, localVars, retryVars, runObs>>
    /\ UNCHANGED <<entryObs, authTrace, loopObs>>
    /\ UNCHANGED PRIVATE_KEYS

\* countdownTimer: await sleep(totalSeconds * 1000) is over; clearInterval and
\* the write that clears the line follow, and an exception of theirs reaches the
\* catch of the while loop
Countdown ==
    /\ pc = "countdown"
    /\ clock' = clock + (WAIT_HOURS * 60 * 60) * 1000
    /\ \/ /\ pc' = "cycle"
          /\ UNCHANGED <<faults, sigVars>>
       \/ /\ Fault
          /\ LoopCatch
    /\ UNCHANGED <<mainVars, localVars, retryVars, runObs>>
    /\ UNCHANGED <<entryObs, authTrace, loopObs>>
    /\ UNCHANGED PRIVATE_KEYS

\* countdownTimer: the setInterval callback, once a minute while the sleep is
\* pending. It only writes the time that remains; when that write throws, the
\* exception is outside every try and every promise: the runtime reports it
\* and ends the process with code 1
CountdownTick ==
    /\ pc = "countdown"
    /\ \/ UNCHANGED <<pc, clock, faults, sigVars>>
       \/ /\ Fault
          /\ \E k \in Ticks : clock' = clock + k * TickPeriod
          /\ pc' = "exited"
          /\ exitCode' = Some(UncaughtExitCode)
          /\ UNCHANGED <<report, exitFrom>>
    /\ UNCHANGED <<mainVars, localVars, retryVars, runObs>>
    /\ UNCHANGED <<entryObs, authTrace, loopObs>>
    /\ UNCHANGED PRIVATE_KEYS

\* a statement of the per-cycle body outside processAccount throws (the banner
\* of the cycle or the line that announces an account, the line that announces
\* the wait once processAccount has returned, the summary): the catch of the
\* while loop runs. At "pace" and "summary" the program has not yet armed the
\* timer that pc names.
LoopThrows ==
    /\ pc \in {"account", "pace", "summary"}
    /\ Fault
    /\ LoopCatch
    /\ UNCHANGED <<mainVars, localVars, clock, retryVars, runObs>>
    /\ UNCHANGED <<entryObs, authTrace, loopObs>>
    /\ UNCHANGED PRIVATE_KEYS

\* variant: the recovery takes the aborted cycle's number back
RecoverRollingBack ==
    /\ pc = "recovery"
    /\ clock' = clock + RecoveryDelay
    /\ pc' = "cycle"
    /\ cycleCount' = cycleCount - 1
    /\ UNCHANGED <<i, accountsStats, tokenDataArray, localVars, retryVars, faults, runObs>>
    /\ UNCHANGED <<entryObs, authTrace, loopObs, sigVars>>
    /\ UNCHANGED PRIVATE_KEYS

\* await sleep(300000) is over: the while loop goes round
Recover ==
    /\ pc = "recovery"
    /\ clock' = clock + RecoveryDelay
    /\ pc' = "cycle"
    /\ UNCHANGED <<mainVars, localVars, retryVars, faults, runObs>>
    /\ UNCHANGED <<entryObs, authTrace, loopObs, sigVars>>
    /\ UNCHANGED PRIVATE_KEYS

(***************************************************************************)
(* process.on('SIGINT')                                                    *)
(***************************************************************************)
\* the line printed for each account that has a stats record: agents, requests,
\* txs, errors
FinalStatistics(stats) ==
    [k \in Accounts \cap DOMAIN stats |->
        [agents |-> stats[k].agents, requests |-> stats[k].requests,
         txs |-> stats[k].txs, errors |-> stats[k].errors]]

\* the lines of the final statistics printed when the handler threw at the
\* line of account n
PartialStatistics(stats, n) ==
    [k \in {a \in Accounts \cap DOMAIN stats : a < n} |-> FinalStatistics(stats)[k]]

\* the event loop can run the handler: main is suspended at a timer (the wait
\* after an account, the countdown, the recovery pause, the sleep of a retry)
\* or at a collaborator call. At "pace" the signal arrives once the wait is
\* armed. main() runs without suspension up to its first await, so that no
\* signal is handled before the stats exist
Suspended ==
    \/ pc \in {"pace", "countdown", "recovery", "getNonce", "sign", "login",
                "setInviter", "generateAgent", "generateRequest", "getUserData"}
    \/ /\ pc \in {"verifyDailyTask", "createNewAgent", "addNewAgent",
                   "createNewRequest", "addNewRequest"}
       /\ rState \in {"attempt", "sleeping"}

\* the handler runs to process.exit(0) whatever main is suspended at and
\* touches nothing else; the pending call, retry or sleep is never resumed.
\* The handler has no try: when one of its logging statements throws, the
\* exception is uncaught and the runtime ends the process with code 1, the
\* statistics not printed or printed in part
Sigint ==
    /\ Suspended
    /\ pc' = "exited"
    /\ \/ /\ UNCHANGED faults
          /\ report' = Some(FinalStatistics(accountsStats))
          /\ exitCode' = Some(SigintExitCode)
       \/ /\ Fault
          /\ \/ report' = Null
             \/ \E n \in 0 .. Len(PRIVATE_KEYS) :
                   report' = Some(PartialStatistics(accountsStats, n))
          /\ exitCode' = Some(UncaughtExitCode)
    /\ exitFrom' = Some(<<pc, rState>>)
    /\ UNCHANGED <<mainVars, localVars, clock, retryVars, runObs, entryObs,
                   authTrace, loopObs>>
    /\ UNCHANGED PRIVATE_KEYS

(***************************************************************************)
(* getToken                                                                *)
(***************************************************************************)

\* variant: a failed handshake is started again at once
AuthFailsRetrying ==
    /\ Fault
    /\ UNCHANGED sigVars
    /\ pc' = "getNonce"
    /\ authTrace' = Append(authTrace, "getNonce")
    /\ UNCHANGED <<tokenDataArray, finished, outcome, tokenData, loginData>>
    /\ UNCHANGED <<cycleCount, i, accountsStats, task, clock, retryVars, started,
                   issued, authCount, statsBefore, tokenBefore, startedAt>>

\* variant: a failed re-authentication hands the stale session back
AuthFailsKeepingSession ==
    /\ Fault
    /\ UNCHANGED sigVars
    /\ AccountReturns(tokenData, "authFailed")
    /\ UNCHANGED <<cycleCount, i, accountsStats, task, clock, retryVars, started,
                   issued, authCount, statsBefore, tokenBefore, startedAt>>
    /\ UNCHANGED authTrace

\* getToken returns null (a collaborator rejected and the catch returned null,
\* or the response lacked its data): processAccount returns null
AuthFails ==
    /\ Fault
    /\ UNCHANGED sigVars
    /\ AccountReturns(Null, "authFailed")
    /\ UNCHANGED <<cycleCount, i, accountsStats, task, clock, retryVars, started,
                   issued, authCount, statsBefore, tokenBefore, startedAt>>
    /\ UNCHANGED authTrace

authFrame == <<mainVars, tokenData, task, clock, retryVars, faults, started, finished,
               authCount, outcome, statsBefore, tokenBefore, startedAt, sigVars>>

\* a logging statement of getToken throws after an await. The catch of getToken
\* returns null, as it does when the awaited call rejected (AuthFails); when the
\* logging of that catch throws in its turn getToken rejects and the catch of
\* processAccount returns the tokenData the run was called with
GetTokenThrows ==
    /\ Fault
    /\ ProcessAccountCatches(accountsStats[i], tokenData)
    /\ UNCHANGED <<cycleCount, i, task, clock, retryVars, started, issued, authCount,
                   statsBefore, tokenBefore, startedAt, authTrace>>

\* await getNonce(address)
GetNonceReturns ==
    /\ pc = "getNonce"
    /\ \/ AuthFails
       \/ GetTokenThrows
       \/ /\ pc' = "sign"
          /\ issued' = issued \cup {"sign"}
          /\ authTrace' = Append(authTrace, "sign")
          /\ UNCHANGED <<authFrame, loginData>>
    /\ UNCHANGED <<entryObs, loopObs>>
    /\ UNCHANGED PRIVATE_KEYS

\* await sign_with_private_key(private_key, nonce)
SignReturns ==
    /\ pc = "sign"
    /\ \/ AuthFails
       \/ GetTokenThrows
       \/ /\ pc' = "login"
          /\ issued' = issued \cup {"login"}
          /\ authTrace' = Append(authTrace, "login")
          /\ UNCHANGED <<authFrame, loginData>>
    /\ UNCHANGED <<entryObs, loopObs>>
    /\ UNCHANGED PRIVATE_KEYS

\* await login(address, signature, nonce)
LoginReturns ==
    /\ pc = "login"
    /\ \/ AuthFails
       \/ GetTokenThrows
       \/ /\ \E expire \in ExpireTimes :
                loginData' = [token |-> <<Address(KeyOf(i)), cycleCount>>,
                              token_expire_time |-> expire]
          /\ pc' = "setInviter"
          /\ issued' = issued \cup {"setInviter"}
          /\ authTrace' = Append(authTrace, "setInviter")
          /\ UNCHANGED authFrame
    /\ UNCHANGED <<entryObs, loopObs>>
    /\ UNCHANGED PRIVATE_KEYS

\* await setInviter(token), inside the try of getToken: when it rejects the
\* catch returns null; when it resolves its result is ignored, getToken returns
\* the session and executeDailyTasks begins
SetInviterReturns ==
    /\ pc = "setInviter"
    /\ \/ AuthFails
       \/ GetTokenThrows
       \/ /\ BeginDailyTasks(SessionOf(loginData, Address(KeyOf(i))))
          /\ UNCHANGED <<cycleCount, i, task, clock, started, authCount, statsBefore,
                         tokenBefore, startedAt, authTrace>>
    /\ UNCHANGED <<entryObs, loopObs>>
    /\ UNCHANGED PRIVATE_KEYS


(***************************************************************************)
(* executeDailyTasks, createAgent, createRequest                           *)
(***************************************************************************)
flowFrame == <<cycleCount, i, tokenDataArray, tokenData, loginData, clock,
               started, finished, authCount, outcome, statsBefore, tokenBefore,
               startedAt>>

\* executeDailyTasks returns false: processAccount returns tokenData
TasksFail(s, how) ==
    /\ accountsStats' = [accountsStats EXCEPT ![i] = s]
    /\ AccountReturns(tokenData, how)
    /\ RetryIdle
    /\ UNCHANGED <<cycleCount, i, task, clock, started, issued, authCount,
                   statsBefore, tokenBefore, startedAt>>

\* executeDailyTasks after both task branches: lastRun, cooldownSeconds,
\* return true; processAccount then awaits getUserData
TasksEpilogueAfter(s, t, calls) ==
    /\ accountsStats' =
          [accountsStats EXCEPT ![i] = WithLastRun(s, clock, t.secondsUntilNextTask)]
    /\ task' = t
    /\ pc' = "getUserData"
    /\ issued' = issued \cup calls \cup {"getUserData"}
    /\ RetryIdle
    /\ UNCHANGED flowFrame

TasksEpilogue(s, t) == TasksEpilogueAfter(s, t, {})

\* executeDailyTasks from the request branch on, with the stats record s of
\* the account and the locals t, the calls made since the last await being
\* calls: await createRequest(...) when the request task is not done
RequestBranchAfter(s, t, calls) ==
    IF ~Truthy(t.is_create_request)
       THEN /\ accountsStats' = [accountsStats EXCEPT ![i] = s]
            /\ task' = t
            /\ pc' = "generateRequest"
            /\ issued' = issued \cup calls \cup {"createRequest", "generateRequest"}
            /\ RetryIdle
            /\ UNCHANGED flowFrame
       ELSE TasksEpilogueAfter(s, t, calls)

RequestBranch(s, t) == RequestBranchAfter(s, t, {})

\* variant: the agent flow is entered whatever the flag says
AgentBranchAlways(s, t) ==
    /\ accountsStats' = [accountsStats EXCEPT ![i] = s]
    /\ task' = t
    /\ pc' = "generateAgent"
    /\ issued' = issued \cup {"createAgent", "generateAgent"}
    /\ RetryIdle
    /\ UNCHANGED flowFrame

\* executeDailyTasks from the agent branch on
AgentBranch(s, t) ==
    IF ~Truthy(t.is_create_agent)
       THEN /\ accountsStats' = [accountsStats EXCEPT ![i] = s]
            /\ task' = t
            /\ pc' = "generateAgent"
            /\ issued' = issued \cup {"createAgent", "generateAgent"}
            /\ RetryIdle
            /\ UNCHANGED flowFrame
       ELSE RequestBranch(s, t)

\* variant: an agent flow that ended in its catch ends the task run of the
\* account
AfterAgentSkippingOnFailure(s, ok) ==
    IF ~ok /\ s.errors > accountsStats[i].errors
       THEN TasksEpilogue(s, task)
       ELSE RequestBranch(s, [task EXCEPT !.taskCompleted = @ \/ ok])

\* createAgent returned ok: if (agentResult) taskCompleted = true
AfterAgent(s, ok) ==
    RequestBranch(s, [task EXCEPT !.taskCompleted = @ \/ ok])

\* createRequest returned ok: if (requestResult) taskCompleted = true
AfterRequest(s, ok) ==
    TasksEpilogue(s, [task EXCEPT !.taskCompleted = @ \/ ok])

\* createAgent or createRequest returned to executeDailyTasks
AfterFlow(flow, s, ok) ==
    IF flow = "agent" THEN AfterAgent(s, ok) ELSE AfterRequest(s, ok)

\* an exception is thrown inside the try of executeDailyTasks after the calls
\* made since the last await, the stats record of the account being s: the run
\* ends in the catch of executeDailyTasks or of processAccount
TasksThrowAfter(s, calls) ==
    /\ Fault
    /\ ExecuteDailyTasksCatches(s, tokenData)
    /\ RetryIdle
    /\ issued' = issued \cup calls
    /\ UNCHANGED <<cycleCount, i, task, clock, started, authCount,
                   statsBefore, tokenBefore, startedAt>>

\* a logging statement of executeDailyTasks throws, or the logging of the catch
\* of the creation flow that is running
TasksThrow(s) == TasksThrowAfter(s, {})

\* a logging statement of createAgent or createRequest throws after an await
\* of the flow, the stats record being s: the catch of the flow logs, errors++,
\* return false; when that logging throws in its turn the exception leaves the
\* flow and reaches the catch of executeDailyTasks
FlowThrows(flow, s) ==
    \/ /\ Fault
       /\ UNCHANGED sigVars
       /\ AfterFlow(flow, WithError(s), FALSE)
    \/ TasksThrow(s)

\* a logging statement throws once lastRun and cooldownSeconds are set: the
\* banner of the completed task (when taskCompleted, inside the try of
\* executeDailyTasks), or the loader of the profile refresh in processAccount
EpilogueThrows(s, t) ==
    /\ Fault
    /\ IF t.taskCompleted
          THEN ExecuteDailyTasksCatches(WithLastRun(s, clock, t.secondsUntilNextTask),
                                        tokenData)
          ELSE ProcessAccountCatches(WithLastRun(s, clock, t.secondsUntilNextTask),
                                     tokenData)
    /\ RetryIdle
    /\ UNCHANGED <<cycleCount, i, task, clock, started, issued, authCount,
                   statsBefore, tokenBefore, startedAt>>

\* a logging statement throws from the request branch on: a line of
\* executeDailyTasks before createRequest is called; the header of
\* createRequest, outside its try, or its loader and then the logging of its
\* catch (createRequest has been called and rejects); the loader of
\* createRequest (caught by its catch: errors++, the flow returns false); the
\* epilogue when the request task was already done
RequestBranchThrows(s, t) ==
    \/ TasksThrow(s)
    \/ /\ ~Truthy(t.is_create_request)
       /\ TasksThrowAfter(s, {"createRequest"})
    \/ /\ ~Truthy(t.is_create_request)
       /\ Fault
       /\ UNCHANGED sigVars
       /\ TasksEpilogueAfter(WithError(s), t, {"createRequest"})
    \/ /\ Truthy(t.is_create_request)
       /\ EpilogueThrows(s, t)

\* a logging statement throws from the agent branch on: a line of
\* executeDailyTasks before createAgent is called; the header of createAgent,
\* outside its try, or its loader and then the logging of its catch
\* (createAgent has been called and rejects); the loader of createAgent (caught
\* by its catch, the request branch follows); the request branch when the
\* agent task was already done
AgentBranchThrows(s, t) ==
    \/ TasksThrow(s)
    \/ /\ ~Truthy(t.is_create_agent)
       /\ TasksThrowAfter(s, {"createAgent"})
    \/ /\ ~Truthy(t.is_create_agent)
       /\ Fault
       /\ UNCHANGED sigVars
       /\ RequestBranchAfter(WithError(s), t, {"createAgent"})
    \/ /\ Truthy(t.is_create_agent)
       /\ RequestBranchThrows(s, t)

\* executeDailyTasks: the locals taken from the response at Date.now() = ms
TaskOf(resp, ms) ==
    [is_create_agent |-> resp.is_create_agent,
     is_create_request |-> resp.is_create_request,
     finish_time |-> resp.finish_time,
     now |-> NowSeconds(ms),
     secondsUntilNextTask |-> SecondsUntilNextTask(resp.finish_time, ms),
     taskCompleted |-> FALSE]

\* the next awaited call of a creation flow: retryWithBackoff(fn)
FlowCalls(fn) ==
    /\ pc' = fn
    /\ issued' = issued \cup {fn}
    /\ BeginRetry(fn, MAX_RETRIES, RETRY_DELAY)
    /\ UNCHANGED <<flowFrame, accountsStats, task>>

\* executeDailyTasks: the response carries data and both completion flags
HasFlags(resp) ==
    /\ resp.data
    /\ resp.is_create_agent # "undefined"
    /\ resp.is_create_request # "undefined"

\* await retryWithBackoff(() => verifyDailyTask(session_token, address))
VerifyReturns ==
    /\ pc = "verifyDailyTask"
    /\ RetryDone
    /\ \/ /\ UNCHANGED <<faults, sigVars>>
          /\ IF rState = "threw"
                THEN TasksFail(WithError(accountsStats[i]), "statusThrew")
                ELSE IF ~HasFlags(rResult)
                THEN TasksFail(accountsStats[i], "statusInvalid")
                ELSE AgentBranch(accountsStats[i], TaskOf(rResult, clock))
       \/ IF rState = "returned" /\ HasFlags(rResult)
             THEN AgentBranchThrows(accountsStats[i], TaskOf(rResult, clock))
             ELSE TasksThrow(accountsStats[i])
    /\ UNCHANGED <<entryObs, authTrace, loopObs>>
    /\ UNCHANGED PRIVATE_KEYS

\* createAgent / createRequest once generateAIResponse settled: the catch of the
\* flow when it rejected or JSON.parse threw, the validation, the platform call
Generated(text, flow, fn) ==
    IF text.kind \in {"rejected", "garbage"}
       THEN AfterFlow(flow, WithError(accountsStats[i]), FALSE)
       ELSE IF ~ValidContent(text)
       THEN AfterFlow(flow, accountsStats[i], FALSE)
       ELSE FlowCalls(fn)

\* await generateAIResponse('create agent', 'createAgent')
GenerateAgentReturns ==
    /\ pc = "generateAgent"
    /\ \/ \E text \in GeneratedTexts :
             /\ IF ValidContent(text) THEN UNCHANGED faults ELSE Fault
             /\ UNCHANGED sigVars
             /\ Generated(text, "agent", "createNewAgent")
       \/ FlowThrows("agent", accountsStats[i])
    /\ UNCHANGED <<entryObs, authTrace, loopObs>>
    /\ UNCHANGED PRIVATE_KEYS

\* variant: the registration is attempted without an identifier
CreateNewAgentReturnsWithoutId ==
    /\ UNCHANGED faults
    /\ pc = "createNewAgent"
    /\ RetryDone
    /\ IF rState = "threw"
          THEN AfterAgent(WithError(accountsStats[i]), FALSE)
          ELSE IF ~rResult.data
          THEN AfterAgent(accountsStats[i], FALSE)
          ELSE FlowCalls("addNewAgent")
    /\ UNCHANGED <<entryObs, authTrace, loopObs, sigVars>>
    /\ UNCHANGED PRIVATE_KEYS

\* await retryWithBackoff(() => createNewAgent(...)), the checks on the response
CreateNewAgentReturns ==
    /\ pc = "createNewAgent"
    /\ RetryDone
    /\ \/ /\ UNCHANGED <<faults, sigVars>>
          /\ IF rState = "threw"
                THEN AfterAgent(WithError(accountsStats[i]), FALSE)
                ELSE IF ~rResult.data \/ rResult.id = 0
                THEN AfterAgent(accountsStats[i], FALSE)
                ELSE FlowCalls("addNewAgent")
       \/ /\ rState = "returned"
          /\ rResult.data /\ rResult.id # 0
          /\ FlowThrows("agent", accountsStats[i])
    /\ UNCHANGED <<entryObs, authTrace, loopObs>>
    /\ UNCHANGED PRIVATE_KEYS

\* await retryWithBackoff(() => contractCall('addNewAgent', ...)), the counters
AddNewAgentReturns ==
    /\ pc = "addNewAgent"
    /\ RetryDone
    /\ \/ /\ UNCHANGED <<faults, sigVars>>
          /\ IF rState = "threw"
                THEN AfterAgent(WithError(accountsStats[i]), FALSE)
                ELSE IF ~rResult.data \/ rResult.hash = ""
                THEN AfterAgent(accountsStats[i], FALSE)
                ELSE AfterAgent(WithAgent(accountsStats[i]), TRUE)
       \/ /\ rState = "returned"
          /\ rResult.data /\ rResult.hash # ""
          /\ \/ FlowThrows("agent", accountsStats[i])
             \/ FlowThrows("agent", WithAgent(accountsStats[i]))
             \/ RequestBranchThrows(WithAgent(accountsStats[i]),
                                    [task EXCEPT !.taskCompleted = TRUE])
    /\ UNCHANGED <<entryObs, authTrace, loopObs>>
    /\ UNCHANGED PRIVATE_KEYS

\* await generateAIResponse('create request', 'createRequest')
GenerateRequestReturns ==
    /\ pc = "generateRequest"
    /\ \/ \E text \in GeneratedTexts :
             /\ IF ValidContent(text) THEN UNCHANGED faults ELSE Fault
             /\ UNCHANGED sigVars
             /\ Generated(text, "request", "createNewRequest")
       \/ FlowThrows("request", accountsStats[i])
    /\ UNCHANGED <<entryObs, authTrace, loopObs>>
    /\ UNCHANGED PRIVATE_KEYS

\* await retryWithBackoff(() => createNewRequest(...)), the checks on the response
CreateNewRequestReturns ==
    /\ pc = "createNewRequest"
    /\ RetryDone
    /\ \/ /\ UNCHANGED <<faults, sigVars>>
          /\ IF rState = "threw"
                THEN AfterRequest(WithError(accountsStats[i]), FALSE)
                ELSE IF ~rResult.data \/ rResult.id = 0
                THEN AfterRequest(accountsStats[i], FALSE)
                ELSE FlowCalls("addNewRequest")
       \/ /\ rState = "returned"
          /\ rResult.data /\ rResult.id # 0
          /\ FlowThrows("request", accountsStats[i])
    /\ UNCHANGED <<entryObs, authTrace, loopObs>>
    /\ UNCHANGED PRIVATE_KEYS

\* await retryWithBackoff(() => contractCall('addNewRequest', ...)), the counters
AddNewRequestReturns ==
    /\ pc = "addNewRequest"
    /\ RetryDone
    /\ \/ /\ UNCHANGED <<faults, sigVars>>
          /\ IF rState = "threw"
                THEN AfterRequest(WithError(accountsStats[i]), FALSE)
                ELSE IF ~rResult.data \/ rResult.hash = ""
                THEN AfterRequest(accountsStats[i], FALSE)
                ELSE AfterRequest(WithRequest(accountsStats[i]), TRUE)
       \/ /\ rState = "returned"
          /\ rResult.data /\ rResult.hash # ""
          /\ \/ FlowThrows("request", accountsStats[i])
             \/ FlowThrows("request", WithRequest(accountsStats[i]))
             \/ EpilogueThrows(WithRequest(accountsStats[i]),
                               [task EXCEPT !.taskCompleted = TRUE])
    /\ UNCHANGED <<entryObs, authTrace, loopObs>>
    /\ UNCHANGED PRIVATE_KEYS

(***************************************************************************)
(* processAccount: the profile refresh                                     *)
(***************************************************************************)
\* variant: a failed refresh is counted as an error of the account
GetUserDataReturnsCountingFailure ==
    /\ pc = "getUserData"
    /\ \/ /\ Fault
          /\ accountsStats' = [accountsStats EXCEPT ![i] = WithError(@)]
          /\ AccountReturns(tokenData, "completed")
       \/ /\ accountsStats' =
                [accountsStats EXCEPT ![i] = WithUserData(@, UserData(i))]
          /\ UNCHANGED faults
          /\ AccountReturns(tokenData, "completed")
    /\ UNCHANGED <<cycleCount, i, task, clock, retryVars, started, issued, authCount,
                   statsBefore, tokenBefore, startedAt>>
    /\ UNCHANGED <<entryObs, authTrace, loopObs, sigVars>>
    /\ UNCHANGED PRIVATE_KEYS

\* await getUserData(tokenData.token) in its own try/catch, then the banner of
\* the completed account and return tokenData.
\*  - The call rejects or answers without data: nothing is stored.
\*  - A logging statement of the inner try throws: the inner catch logs and the
\*    run completes, with the profile when it was already stored.
\*  - The logging of the inner catch, or the banner after it, throws: the catch
\*    of processAccount runs
GetUserDataReturns ==
    /\ pc = "getUserData"
    /\ \/ /\ Fault
          /\ ReturnsWith(accountsStats[i], tokenData, "completed")
       \/ /\ UNCHANGED faults
          /\ ReturnsWith(WithUserData(accountsStats[i], UserData(i)), tokenData,
                         "completed")
       \/ /\ Fault
          /\ ReturnsWith(WithUserData(accountsStats[i], UserData(i)), tokenData,
                         "completed")
       \/ /\ Fault
          /\ ProcessAccountCatches(accountsStats[i], tokenData)
       \/ /\ Fault
          /\ ProcessAccountCatches(WithUserData(accountsStats[i], UserData(i)),
                                   tokenData)
    /\ UNCHANGED <<cycleCount, i, task, clock, retryVars, started, issued, authCount,
                   statsBefore, tokenBefore, startedAt>>
    /\ UNCHANGED <<entryObs, authTrace, loopObs>>
    /\ UNCHANGED PRIVATE_KEYS


(***************************************************************************)
(* Specifications                                                          *)
(***************************************************************************)
Next ==
    \/ Startup
    \/ CycleStart
    \/ StartAccount
    \/ CheckToken
    \/ GetNonceReturns
    \/ SignReturns
    \/ LoginReturns
    \/ SetInviterReturns
    \/ RetryAttemptOk
    \/ RetryAttemptFail
    \/ RetrySleep
    \/ VerifyReturns
    \/ GenerateAgentReturns
    \/ CreateNewAgentReturns
    \/ AddNewAgentReturns
    \/ GenerateRequestReturns
    \/ CreateNewRequestReturns
    \/ AddNewRequestReturns
    \/ GetUserDataReturns
    \/ Pace
    \/ Summary
    \/ Countdown
    \/ CountdownTick
    \/ LoopThrows
    \/ Recover
    \/ Sigint

Spec == Init /\ [][Next]_vars

\* the event loop runs every timer that is due and every settled promise
SpecFair == Spec /\ WF_vars(Next)

(***************************************************************************)
(* retryWithBackoff taken alone: any retries >= 1, any delay, an operation  *)
(* that resolves or rejects at each attempt                                *)
(***************************************************************************)
RetryDelays == {1000, 5000}

InitRetry ==
    /\ PRIVATE_KEYS = <<"0xKEY0", "0xKEY1">>
    /\ pc = "retry"
    /\ cycleCount = 0
    /\ i = 0
    /\ clock = 0
    /\ accountsStats = [k \in Accounts |-> InitStats(0)]
    /\ tokenDataArray = [k \in Accounts |-> Null]
    /\ tokenData = Null
    /\ task = NoTask
    /\ loginData = NoLogin
    /\ rState = "attempt"
    /\ rFn = "operation"
    /\ rI = 0
    /\ rRetries \in 1 .. MaxAttemptsArg
    /\ rDelay \in RetryDelays
    /\ rResult = NoResponse
    /\ rError = NoError
    /\ rCalls = 1
    /\ rResolved = <<>>
    /\ rWaits = <<>>
    /\ rRaised = <<>>
    /\ faults = 0
    /\ started = [k \in Accounts |-> 0]
    /\ finished = [k \in Accounts |-> 0]
    /\ issued = {}
    /\ authCount = 0
    /\ outcome = "none"
    /\ statsBefore = [k \in Accounts |-> InitStats(0)]
    /\ tokenBefore = Null
    /\ startedAt = 0
    /\ faultsBefore = 0
    /\ authTrace = <<>>
    /\ paced = [k \in Accounts |-> 0]
    /\ cooldownFrom = Null
    /\ exitCode = Null
    /\ report = Null
    /\ exitFrom = Null

NextRetry ==
    \/ RetryAttemptOk
    \/ RetryAttemptFail
    \/ RetrySleep

SpecRetry == InitRetry /\ [][NextRetry]_vars

(***************************************************************************)
(* Vocabulary of the properties                                            *)
(***************************************************************************)
AuthCalls == {"getNonce", "sign", "login", "setInviter"}
CreationCalls == {"generateAgent", "createNewAgent", "addNewAgent",
                  "generateRequest", "createNewRequest", "addNewRequest"}
TaskCalls == {"verifyDailyTask", "getUserData"} \cup CreationCalls
AuthPcs == {"getNonce", "sign", "login", "setInviter"}
TaskPcs == {"verifyDailyTask", "generateAgent", "createNewAgent", "addNewAgent",
            "generateRequest", "createNewRequest", "addNewRequest", "getUserData"}
\* the positions inside one call of processAccount
RunPcs == {"checkTokenValid"} \cup AuthPcs \cup TaskPcs

\* the accounts whose stats record exists: if (accountsStats[i])
Tracked == DOMAIN accountsStats

\* processAccount has just returned for account i
JustReturned == pc \in {"pace", "summary"}
\* no account is being processed
BetweenAccounts == pc \in {"cycle", "account", "pace", "summary", "countdown", "recovery"}
\* processAccount was called for account k and has neither returned nor rejected
InProgress(k) == started[k] > finished[k] /\ outcome # "rejected"

RECURSIVE SumSeq(_)
SumSeq(q) == IF q = <<>> THEN 0 ELSE q[1] + SumSeq(Tail(q))

(***************************************************************************)
(* C1. No account is processed twice in a cycle; when a cycle reaches its   *)
(* summary every account has been processed exactly once in it; an account *)
(* that failed is followed by the pacing wait or the summary like one that *)
(* succeeded; and whatever happens inside the processing of an account     *)
(* (an exception thrown among the outcomes), the account is handed back to *)
(* the for loop: an account that was started and has not returned is the   *)
(* one being processed, unless the interrupt ended the process.            *)
(***************************************************************************)
C1_EachAccountOncePerCycle ==
    /\ \A k \in Accounts : started[k] <= 1 /\ finished[k] <= started[k]
    /\ pc \in {"summary", "countdown"} =>
          \A k \in Accounts : started[k] = 1 /\ finished[k] = 1
    /\ pc = "pace" => /\ i < Len(PRIVATE_KEYS) - 1
                      /\ \A k \in Accounts : finished[k] = (IF k <= i THEN 1 ELSE 0)
    /\ \A k \in Accounts :
          (started[k] > finished[k] /\ IsNull(exitFrom)) => (k = i /\ pc \in RunPcs)

(***************************************************************************)
(* C2. Every configured account has a stats record from the end of the     *)
(* start-up on (only a start-up that threw leaves none); for every account *)
(* with a record, in every reachable state, errors >= 0 and                *)
(* txs <= agents + requests.                                               *)
(***************************************************************************)
C2_CountersBounded ==
    /\ Tracked \in {{}, Accounts}
    /\ Tracked # Accounts =>
          pc = "start" \/ (pc = "exited" /\ exitCode = Some(1) /\ cycleCount = 0)
    /\ \A k \in Tracked :
          /\ accountsStats[k].errors >= 0
          /\ accountsStats[k].txs <= accountsStats[k].agents + accountsStats[k].requests

\* an account with a registered agent, a registered request and an error
C2_Witness ==
    \E k \in Tracked :
        /\ accountsStats[k].agents >= 1
        /\ accountsStats[k].requests >= 1
        /\ accountsStats[k].txs >= 2
        /\ accountsStats[k].errors >= 1

(***************************************************************************)
(* C3. Accounts are started in index order; account k+1 is started only    *)
(* after processAccount returned for account k, with no call or retry of   *)
(* account k left pending; at most one account is in progress.             *)
(***************************************************************************)
C3_SequentialAccounts ==
    /\ \A k \in Accounts : InProgress(k) => k = i /\ ~BetweenAccounts
    /\ \A k \in Accounts : (k > 0 /\ started[k] >= 1) => finished[k - 1] >= 1
    /\ \A k \in Accounts : started[k] >= 1 => \A j \in 0 .. (k - 1) : started[j] >= 1
    /\ BetweenAccounts => rState = "idle" /\ \A k \in Accounts : ~InProgress(k)

\* the second account is in a retry wait of its own, started after the first
\* account's workflow (with a profile refresh) was over
C3_Witness ==
    /\ i = 1
    /\ InProgress(1)
    /\ rState = "sleeping"
    /\ finished[0] = 1
    /\ ~IsNull(accountsStats[0].uid)

(***************************************************************************)
(* C4. retryWithBackoff with retries >= 1 invokes fn at most retries       *)
(* times; once an invocation has resolved, retryWithBackoff has returned   *)
(* the value of that invocation, and fn is not invoked again (every        *)
(* invocation made is the pending one, a rejected one, or the one that     *)
(* resolved).                                                              *)
(***************************************************************************)
C4_AtMostRetriesStopOnSuccess ==
    /\ rCalls <= rRetries
    /\ rCalls = Len(rRaised) + Len(rResolved) + (IF rState = "attempt" THEN 1 ELSE 0)
    /\ Len(rResolved) <= 1
    /\ rResolved # <<>> => rState = "returned" /\ rResult = rResolved[1]

\* three attempts allowed, the first rejected, the second resolved: returned
\* after two invocations
C4_Witness ==
    /\ rRetries = 3
    /\ rState = "returned"
    /\ Len(rRaised) = 1
    /\ rCalls = 2

(***************************************************************************)
(* C5. The sleeps of one retryWithBackoff are delay, 2*delay, 4*delay, ... *)
(* one before each attempt after the first, each after a rejected attempt  *)
(* that was not the last allowed one; no wait follows the attempt at which *)
(* the function threw; the clock has advanced by exactly their sum when    *)
(* the next attempt is made; with retries = 3 and delay = 5000 they are    *)
(* 5000 then 10000 when the three attempts were rejected.                  *)
(***************************************************************************)
C5_BackoffDoubles ==
    /\ Len(rWaits) <= rRetries - 1
    /\ rWaits # <<>> => rWaits[1] = rDelay
    /\ \A n \in 1 .. (Len(rWaits) - 1) : rWaits[n + 1] = 2 * rWaits[n]
    /\ Len(rWaits) = Len(rRaised) - (IF rState = "threw" THEN 1 ELSE 0)
    /\ rCalls = Len(rWaits) + (IF rState = "sleeping" THEN 0 ELSE 1)
    /\ clock = SumSeq(rWaits) - (IF rState = "sleeping" THEN rWaits[Len(rWaits)] ELSE 0)
    /\ (rRetries = 3 /\ rDelay = 5000 /\ Len(rRaised) = 3) => rWaits = <<5000, 10000>>

\* retries = 3, delay = 5000, every attempt rejected
C5_Witness ==
    /\ rRetries = 3
    /\ rDelay = 5000
    /\ rState = "threw"
    /\ rWaits = <<5000, 10000>>
    /\ clock = 15000

(***************************************************************************)
(* C6. When every allowed attempt was rejected, retryWithBackoff throws,   *)
(* and what it throws is the very error the operation raised at its last   *)
(* attempt: not another value, and never a normal return. The only other   *)
(* error it throws is the logger's, before the attempts are exhausted.     *)
(***************************************************************************)
C6_OriginalErrorPropagates ==
    /\ (rState # "idle" /\ Len(rRaised) = rRetries) =>
          /\ rState = "threw"
          /\ rError = rRaised[Len(rRaised)]
    /\ (rState = "threw" /\ Len(rRaised) < rRetries) =>
          /\ rRaised # <<>>
          /\ rError = LoggerError
    /\ rState = "returned" => rError = NoError

\* three rejected attempts, the last error differing from the first
C6_Witness ==
    /\ rState = "threw"
    /\ rRetries = 3
    /\ Len(rRaised) = 3
    /\ rRaised[1] # rRaised[3]
    /\ rError = rRaised[3]

(***************************************************************************)
(* C7. When the fetched status has both completion flags true, no          *)
(* generation, creation or on-chain call is issued for the account and its *)
(* agents, requests and txs are what they were when the run began.         *)
(***************************************************************************)
C7_BothDoneDoesNothing ==
    (Truthy(task.is_create_agent) /\ Truthy(task.is_create_request)) =>
        /\ issued \cap CreationCalls = {}
        /\ accountsStats[i].agents = statsBefore[i].agents
        /\ accountsStats[i].requests = statsBefore[i].requests
        /\ accountsStats[i].txs = statsBefore[i].txs

\* second cycle of an account that created both the cycle before: both flags
\* true, executeDailyTasks returned, the counters still at 1, 1, 2
C7_Witness ==
    /\ pc = "getUserData"
    /\ Truthy(task.is_create_agent)
    /\ Truthy(task.is_create_request)
    /\ cycleCount = 2
    /\ accountsStats[i].agents = 1
    /\ accountsStats[i].requests = 1
    /\ accountsStats[i].txs = 2

(***************************************************************************)
(* C8. When the status fetch returns a response without its data or        *)
(* without a completion flag, the errors counter of the account has grown  *)
(* by exactly 1 and no creation or on-chain call was issued.               *)
(***************************************************************************)
C8_InvalidStatusCountsOneError ==
    (JustReturned /\ outcome = "statusInvalid") =>
        /\ accountsStats[i].errors = statsBefore[i].errors + 1
        /\ issued \cap CreationCalls = {}

(***************************************************************************)
(* C9. When getToken yields no session (first acquisition or               *)
(* re-acquisition), the stats record of the account is what it was when    *)
(* the run began, no task call was issued, and the carried-forward session *)
(* is null; a run that begins with a null session calls getToken. (When    *)
(* getToken rejects, or the line of processAccount that reports the        *)
(* failure throws, the run ends in the catch of processAccount, which is   *)
(* the case of an exception caught at the account boundary.)               *)
(***************************************************************************)
C9_AuthFailureLeavesNoTrace ==
    /\ (JustReturned /\ outcome = "authFailed") =>
          /\ accountsStats[i] = statsBefore[i]
          /\ issued \cap TaskCalls = {}
          /\ IsNull(tokenDataArray[i])
    /\ (outcome = "running" /\ IsNull(tokenBefore)) =>
          /\ authCount = 1
          /\ "getNonce" \in issued

\* second cycle: the account whose authentication failed in the first cycle,
\* its stats still the initial ones, is at getNonce again
C9_Witness ==
    /\ cycleCount = 2
    /\ pc = "getNonce"
    /\ IsNull(tokenBefore)
    /\ faults = 1
    /\ accountsStats[i] = InitStats(0)

(***************************************************************************)
(* C10. A run that began with a carried-forward session: if the clock was  *)
(* before token_expire_time, getToken is not called and the carried        *)
(* session is the one the tasks use and the one carried on; if the clock   *)
(* was at or past token_expire_time, getToken is called exactly once and   *)
(* its four calls precede every task call of the run, and no task call is  *)
(* issued while it runs (an interrupted run aside). The one run that makes *)
(* no getToken call with an expired session is a run ended by an exception *)
(* of its logging before any call, and getToken issues no call only when   *)
(* its own logging threw.                                                  *)
(***************************************************************************)
C10_SessionReuse ==
    /\ authCount <= 1
    /\ pc \in AuthPcs => issued \cap TaskCalls = {}
    /\ (~IsNull(tokenBefore) /\ outcome # "none" /\ pc \notin {"checkTokenValid", "exited"}) =>
          IF NowSeconds(startedAt) < Val(tokenBefore).token_expire_time
             THEN /\ authCount = 0
                  /\ issued \cap AuthCalls = {}
                  /\ pc \in TaskPcs => tokenData = tokenBefore
                  /\ JustReturned => tokenDataArray[i] = tokenBefore
             ELSE /\ issued \cap TaskCalls # {} => (authCount = 1 /\ AuthCalls \subseteq issued)
                  /\ authCount = 0 => (outcome \in {"threw", "rejected"} /\ issued = {})
                  /\ (authCount = 1 /\ "getNonce" \notin issued) =>
                        /\ outcome \in {"threw", "rejected", "authFailed"}
                        /\ faults > faultsBefore

\* the clock is exactly at token_expire_time: the session was re-acquired and
\* the status fetch is now pending
C10_Witness ==
    /\ ~IsNull(tokenBefore)
    /\ NowSeconds(startedAt) = Val(tokenBefore).token_expire_time
    /\ pc = "verifyDailyTask"
    /\ authCount = 1
    /\ tokenData # tokenBefore

(***************************************************************************)
(* C11. An account whose counters are the initial ones and whose status    *)
(* reports both flags false, in a run where no collaborator call           *)
(* misbehaves: both creation flows have run, every creation and on-chain   *)
(* call was issued, and agents = 1, requests = 1, txs = 2, errors = 0.     *)
(***************************************************************************)
C11_FreshAccountCreatesBoth ==
    (/\ pc = "getUserData" \/ (JustReturned /\ outcome = "completed")
     /\ statsBefore[i] = InitStats(0)
     /\ task.is_create_agent = "false"
     /\ task.is_create_request = "false"
     /\ faults = faultsBefore) =>
        /\ CreationCalls \subseteq issued
        /\ accountsStats[i].agents = 1
        /\ accountsStats[i].requests = 1
        /\ accountsStats[i].txs = 2
        /\ accountsStats[i].errors = 0

\* the last account of the first cycle completed with both flows run and no
\* call of the run misbehaving
C11_Witness ==
    /\ pc = "summary"
    /\ outcome = "completed"
    /\ statsBefore[i] = InitStats(0)
    /\ task.is_create_agent = "false"
    /\ task.is_create_request = "false"
    /\ faults = faultsBefore
    /\ accountsStats[i].agents = 1
    /\ accountsStats[i].requests = 1
    /\ accountsStats[i].txs = 2
    /\ ~IsNull(accountsStats[i].uid)

(***************************************************************************)
(* C12. Once the status fetch has returned both flags and executeDailyTasks *)
(* has returned, cooldownSeconds of the account is finish_time + 86400 -   *)
(* now, now being the second at which the status was read, whichever       *)
(* branches were taken; finish_time = T and now = T + 3600 give 82800.     *)
(***************************************************************************)
C12_CooldownArithmetic ==
    /\ pc \in {"generateAgent", "createNewAgent", "addNewAgent", "generateRequest",
               "createNewRequest", "addNewRequest"} =>
          task.secondsUntilNextTask = task.finish_time + 86400 - task.now
    /\ (pc = "getUserData" \/ (JustReturned /\ outcome = "completed")) =>
          /\ HasFlags([data |-> TRUE, is_create_agent |-> task.is_create_agent,
                       is_create_request |-> task.is_create_request])
          /\ accountsStats[i].cooldownSeconds = task.finish_time + 86400 - task.now
          /\ NowSeconds(startedAt) <= task.now
          /\ task.now <= NowSeconds(clock)
          /\ task.now = task.finish_time + 3600 =>
                accountsStats[i].cooldownSeconds = 82800

\* one hour after finish_time, an agent flow that was run and failed: 82800
C12_Witness ==
    /\ pc = "getUserData"
    /\ task.now = task.finish_time + 3600
    /\ task.is_create_agent = "false"
    /\ Truthy(task.is_create_request)
    /\ ~task.taskCompleted
    /\ accountsStats[i].cooldownSeconds = 82800

(***************************************************************************)
(* C13. When executeDailyTasks has returned, every creation flow that was  *)
(* entered and abandoned without success (its counter is what it was when  *)
(* the run began) has incremented the errors counter of the account.       *)
(***************************************************************************)
C13_AbandonedFlowCountsError ==
    pc = "getUserData" =>
        LET agentAbandoned ==
                /\ "generateAgent" \in issued
                /\ accountsStats[i].agents = statsBefore[i].agents
            requestAbandoned ==
                /\ "generateRequest" \in issued
                /\ accountsStats[i].requests = statsBefore[i].requests
        IN  accountsStats[i].errors >=
                statsBefore[i].errors + (IF agentAbandoned THEN 1 ELSE 0)
                                      + (IF requestAbandoned THEN 1 ELSE 0)

(***************************************************************************)
(* C14. An account run whose task execution has begun holds a session,     *)
(* and that session is the one the account has after the run however the   *)
(* task execution ended (status fetch thrown, status invalid, an exception *)
(* caught by executeDailyTasks or processAccount, an exception that leaves *)
(* processAccount and sends the loop to its recovery, completion); the     *)
(* next cycle starts from the stored session; a stored session becomes     *)
(* null only in a step of the authentication, never in a step of the task  *)
(* execution.                                                              *)
(***************************************************************************)
C14_SessionSurvivesTaskFailure ==
    /\ [](/\ (JustReturned /\ outcome \in {"statusThrew", "statusInvalid", "completed"}) =>
              /\ ~IsNull(tokenDataArray[i])
              /\ authCount = 0 => tokenDataArray[i] = tokenBefore
              /\ authCount = 1 =>
                    Val(tokenDataArray[i]).token = <<Address(KeyOf(i)), cycleCount>>
          /\ pc \in TaskPcs => ~IsNull(tokenData)
          /\ pc = "checkTokenValid" => tokenData = tokenDataArray[i] /\ ~IsNull(tokenData))
    /\ [][(pc \in TaskPcs /\ finished'[i] = finished[i] + 1) =>
              tokenDataArray'[i] = tokenData]_vars
    /\ [][(/\ pc = "checkTokenValid"
            /\ checkTokenValid(Val(tokenData).token_expire_time, clock)
            /\ finished'[i] = finished[i] + 1) =>
              tokenDataArray'[i] = tokenData]_vars
    /\ [][(pc \in TaskPcs /\ outcome' = "rejected" /\ pc' = "recovery") =>
              tokenDataArray'[i] = tokenData]_vars
    /\ [][\A k \in Accounts :
              (~IsNull(tokenDataArray[k]) /\ IsNull(tokenDataArray'[k])) =>
                  /\ k = i
                  /\ pc \notin TaskPcs
                  /\ authCount' = 1
                  /\ outcome' \in {"authFailed", "threw"}]_vars

(***************************************************************************)
(* C15, as stated. With at least one configured account the process ends   *)
(* only through the interrupt handler; the recovery waits exactly 5        *)
(* minutes and goes back to the head of the loop with the cycle counter as *)
(* it is, the counter only ever grows by one at the head of the loop, and  *)
(* from every cycle the next one eventually starts unless the interrupt    *)
(* ends the process.                                                       *)
(***************************************************************************)
C15_NeverTerminatesOnItsOwn ==
    /\ []((Len(PRIVATE_KEYS) > 0 /\ pc \in {"exited", "returned"}) =>
              ~IsNull(exitFrom))
    /\ [][pc = "recovery" =>
              \/ ~IsNull(exitFrom')
              \/ /\ pc' = "cycle"
                 /\ clock' = clock + 5 * 60 * 1000
                 /\ cycleCount' = cycleCount]_vars
    /\ [][cycleCount' # cycleCount =>
              /\ pc = "cycle"
              /\ pc' = "account"
              /\ cycleCount' = cycleCount + 1]_vars
    /\ \A n \in 0 .. (MaxCycles - 1) :
          (cycleCount = n /\ Len(PRIVATE_KEYS) > 0 /\ IsNull(exitFrom))
              ~> (cycleCount = n + 1 \/ ~IsNull(exitFrom))

(***************************************************************************)
(* C15, amended. With at least one configured account main never returns,  *)
(* and the process ends on its own only with exit code 1 and               *)
(* only in a step in which a statement outside the reach of the recovery   *)
(* guard throws (the start-up, the guard's own reporting of an escaped     *)
(* exception, the progress ticker); an exception escapes the per-cycle     *)
(* body from the statements of main or from a processAccount that          *)
(* rejects; when the guard reports it the cycle counter is left as it is,  *)
(* the recovery waits exactly 5 minutes and goes back to the head of the   *)
(* loop, the counter only ever grows by one at the head of the loop, and   *)
(* from every cycle the next one eventually starts unless the process      *)
(* exits.                                                                  *)
(***************************************************************************)
C15_LoopRecoversAndGoesOn ==
    /\ [](pc = "returned" <=> (Len(PRIVATE_KEYS) = 0 /\ pc # "start" /\ pc # "exited"))
    /\ [](pc = "exited" => exitCode \in {Some(0), Some(1)})
    /\ [][(pc' = "exited" /\ IsNull(exitFrom')) =>
              /\ exitCode' = Some(1)
              /\ faults' = faults + 1
              /\ pc \in {"start", "account", "pace", "summary", "countdown"} \cup RunPcs
              /\ pc \in RunPcs => outcome' = "rejected"]_vars
    /\ [][pc' = "recovery" =>
              /\ cycleCount' = cycleCount
              /\ faults' = faults + 1
              /\ pc \in {"account", "pace", "summary", "countdown"} \cup RunPcs
              /\ pc \in RunPcs => outcome' = "rejected"]_vars
    /\ [][(pc = "recovery" /\ pc' # "exited") =>
              /\ pc' = "cycle"
              /\ clock' = clock + 5 * 60 * 1000
              /\ cycleCount' = cycleCount]_vars
    /\ [][cycleCount' # cycleCount =>
              /\ pc = "cycle"
              /\ pc' = "account"
              /\ cycleCount' = cycleCount + 1]_vars
    /\ \A n \in 0 .. (MaxCycles - 1) :
          (cycleCount = n /\ Len(PRIVATE_KEYS) > 0 /\ pc # "exited")
              ~> (cycleCount = n + 1 \/ pc = "exited")

\* the second cycle has begun five minutes after the summary of the first
\* cycle threw, no cooldown having been waited
C15_Witness ==
    /\ cycleCount = 2
    /\ pc = "account"
    /\ i = 0
    /\ IsNull(cooldownFrom)
    /\ clock = InterAccountDelay + RecoveryDelay
    /\ \A k \in Accounts : ~IsNull(tokenDataArray[k])

(***************************************************************************)
(* C18. The interrupt handler can run in every state in which the program  *)
(* is suspended (main runs without suspension until the stats exist); once *)
(* it has run, the final statistics are the agents, requests, txs and      *)
(* errors of every account as accumulated so far, the exit code is 0       *)
(* (the handler does not fail), the stats and the calls issued are what    *)
(* they were when the signal arrived, and no step of the program follows.  *)
(***************************************************************************)
C18_InterruptReportsAndExits ==
    /\ [](Suspended => ENABLED Sigint)
    /\ [](~IsNull(exitFrom) =>
              /\ pc = "exited"
              /\ exitCode = Some(0)
              /\ ~IsNull(report)
              /\ DOMAIN Val(report) = Accounts
              /\ \A k \in Accounts :
                    /\ Val(report)[k].agents = accountsStats[k].agents
                    /\ Val(report)[k].requests = accountsStats[k].requests
                    /\ Val(report)[k].txs = accountsStats[k].txs
                    /\ Val(report)[k].errors = accountsStats[k].errors)
    /\ [][~IsNull(exitFrom') =>
              /\ accountsStats' = accountsStats
              /\ tokenDataArray' = tokenDataArray
              /\ issued' = issued
              /\ started' = started
              /\ finished' = finished
              /\ clock' = clock]_vars
    /\ [][pc # "exited"]_vars

(***************************************************************************)
(* C16. In a cycle the 3-second wait has been made exactly once after      *)
(* every account before the current one and after no other; it is pending  *)
(* only after an account other than the last has returned, whatever its    *)
(* outcome; the next account starts only after it; it lasts 3000 ms        *)
(* (a step that exits or enters the recovery aside).                       *)
(***************************************************************************)
C16_PacingBetweenAccounts ==
    /\ [](/\ \A k \in Accounts : paced[k] = (IF k < i THEN 1 ELSE 0)
          /\ \A k \in Accounts : k = Len(PRIVATE_KEYS) - 1 => paced[k] = 0
          /\ pc = "pace" => (i < Len(PRIVATE_KEYS) - 1 /\ finished[i] = 1)
          /\ \A k \in Accounts :
                (k > 0 /\ started[k] = 1) => paced[k - 1] = 1
          /\ pc \in {"summary", "countdown"} =>
                \A k \in Accounts : paced[k] = (IF k < Len(PRIVATE_KEYS) - 1 THEN 1 ELSE 0))
    /\ [][\A k \in Accounts :
              (finished'[k] = finished[k] + 1) =>
                  pc' = (IF k < Len(PRIVATE_KEYS) - 1 THEN "pace" ELSE "summary")]_vars
    /\ [][(pc = "pace" /\ pc' \notin {"exited", "recovery"}) =>
              /\ pc' = "account"
              /\ clock' = clock + 3000
              /\ i' = i + 1]_vars

\* the wait was made after an account whose authentication failed
C16_Witness ==
    /\ pc = "account"
    /\ i = 1
    /\ paced[0] = 1
    /\ outcome = "authFailed"
    /\ clock = 3000

(***************************************************************************)
(* C17. The summary is reached only when every account of the cycle has    *)
(* been processed; it is followed by the countdown of WAIT_HOURS hours,    *)
(* during which no account is in progress and no call is pending; every    *)
(* account run that follows a summary began at least WAIT_HOURS hours      *)
(* after it, also when the cycle after the countdown began by a recovery.  *)
(***************************************************************************)
C17_SummaryThenCooldown ==
    /\ [](/\ pc \in {"summary", "countdown"} =>
                /\ \A k \in Accounts : started[k] = 1 /\ finished[k] = 1
                /\ rState = "idle"
          /\ pc = "countdown" =>
                /\ cooldownFrom = Some(clock)
                /\ IsNull(tokenData)
          /\ (~IsNull(cooldownFrom) /\ pc \notin {"countdown", "exited"}) =>
                clock >= Val(cooldownFrom) + WAIT_HOURS * 60 * 60 * 1000
          /\ (~IsNull(cooldownFrom) /\ outcome = "running" /\ pc # "exited") =>
                startedAt >= Val(cooldownFrom) + 12 * 60 * 60 * 1000)
    /\ [][(pc = "summary" /\ pc' \notin {"exited", "recovery"}) => pc' = "countdown"]_vars
    /\ [][(pc = "countdown" /\ pc' \notin {"countdown", "exited"}) =>
              /\ pc' \in {"cycle", "recovery"}
              /\ clock' = clock + 12 * 60 * 60 * 1000]_vars
    /\ [][\A k \in Accounts : started'[k] > started[k] => pc = "account"]_vars

\* the first account of the second cycle began exactly 12 hours after the
\* summary of the first
C17_Witness ==
    /\ cycleCount = 2
    /\ i = 0
    /\ outcome = "running"
    /\ pc = "checkTokenValid"
    /\ ~IsNull(cooldownFrom)
    /\ startedAt = Val(cooldownFrom) + 43200000

(***************************************************************************)
(* C19. The calls of one account run to the handshake are a prefix of      *)
(* getNonce, sign, login, setInviter: none is issued twice; no             *)
(* retryWithBackoff is pending during the handshake; getToken is called at *)
(* most once in a run and a run at most once in a cycle; when the          *)
(* handshake failed the run is over with no session.                       *)
(***************************************************************************)
Handshake == <<"getNonce", "sign", "login", "setInviter">>

C19_HandshakeNeverRetried ==
    /\ Len(authTrace) <= Len(Handshake)
    /\ \A n \in 1 .. Len(authTrace) : authTrace[n] = Handshake[n]
    /\ authCount <= 1
    /\ \A k \in Accounts : started[k] <= 1
    /\ pc \in AuthPcs =>
          /\ rState = "idle"
          /\ authTrace # <<>>
          /\ authTrace[Len(authTrace)] = pc
    /\ (JustReturned /\ outcome = "authFailed") =>
          /\ authCount = 1
          /\ IsNull(tokenDataArray[i])

\* login failed: getNonce, sign and login were each issued once, and the run
\* is over with no session
C19_Witness ==
    /\ JustReturned
    /\ outcome = "authFailed"
    /\ authTrace = <<"getNonce", "sign", "login">>
    /\ IsNull(tokenDataArray[i])

(***************************************************************************)
(* C20. Whenever the handshake got as far as the inviter registration (a   *)
(* nonce and a token were received), the account run ends with a session,  *)
(* whatever the outcome of the inviter registration.                       *)
(***************************************************************************)
C20_InviterIsBestEffort ==
    (JustReturned /\ "setInviter" \in issued) =>
        /\ outcome # "authFailed"
        /\ ~IsNull(tokenDataArray[i])

(***************************************************************************)
(* C21. When the status reports the request task not done, createRequest   *)
(* is called in that account run however the agent flow ended (invalid     *)
(* content, a generation, creation or registration call that threw and     *)
(* was caught, a creation without identifier, a registration without       *)
(* hash, success): it is called in the very step in which createAgent      *)
(* returns, or straight from the status when the agent task is done,       *)
(* never while a call of the agent flow is pending, and the profile        *)
(* refresh is not reached without it. Set apart are only the steps in      *)
(* which a logging statement throws and the exception leaves createAgent   *)
(* or executeDailyTasks, which end the account run.                        *)
(***************************************************************************)
AgentPcs == {"generateAgent", "createNewAgent", "addNewAgent"}
RequestPcs == {"generateRequest", "createNewRequest", "addNewRequest"}

C21_AgentFailureSkipsOnlyAgent ==
    /\ [](/\ (pc \in RequestPcs \cup {"getUserData"} /\ ~Truthy(task.is_create_request)) =>
                "createRequest" \in issued
          /\ "generateRequest" \in issued => "createRequest" \in issued
          /\ pc \in RequestPcs =>
                /\ ~Truthy(task.is_create_request)
                /\ rFn \notin {"createNewAgent", "addNewAgent"}
                /\ "createAgent" \in issued <=> ~Truthy(task.is_create_agent)
          /\ pc \in AgentPcs => issued \cap ({"createRequest"} \cup RequestPcs) = {})
    /\ [][(pc \in AgentPcs /\ pc' \notin AgentPcs \cup {"exited"}) =>
              \/ /\ ~Truthy(task.is_create_request)
                 /\ "createRequest" \in issued'
                 /\ \/ pc' = "generateRequest"
                    \/ /\ pc' = "getUserData"
                       /\ faults' > faults
                       /\ accountsStats'[i].errors = accountsStats[i].errors + 1
              \/ /\ Truthy(task.is_create_request)
                 /\ "createRequest" \notin issued'
                 /\ pc' = "getUserData"
              \/ /\ faults' > faults
                 /\ outcome' \in {"threw", "rejected"}]_vars
    /\ [][(pc' = "generateRequest" /\ pc # "generateRequest") =>
              \/ pc \in AgentPcs
              \/ /\ pc = "verifyDailyTask"
                 /\ Truthy(task'.is_create_agent) \/ "createAgent" \in issued']_vars

\* the platform creation call of the agent flow threw after its retries, the
\* catch of createAgent counted the error, and the request flow is running
C21_Witness ==
    /\ pc = "generateRequest"
    /\ "createNewAgent" \in issued
    /\ "addNewAgent" \notin issued
    /\ faults = faultsBefore + 1
    /\ accountsStats[i].errors = statsBefore[i].errors + 1
    /\ accountsStats[i].agents = statsBefore[i].agents
    /\ ~task.taskCompleted

(***************************************************************************)
(* C22. In a creation flow the registration call is issued only in the     *)
(* step in which the platform creation call returned an identifier; agents *)
(* (resp. requests) and txs move only in the step in which that            *)
(* registration returned a transaction hash, by one each and for the       *)
(* account being processed; a registration that failed after a successful  *)
(* creation leaves agents, requests and txs as they were.                  *)
(***************************************************************************)
\* the pending registration call fn has returned a transaction hash
Registered(fn) ==
    /\ pc = fn
    /\ rState = "returned"
    /\ rFn = fn
    /\ rResult.data
    /\ rResult.hash # ""

\* the pending platform creation call fn has returned an identifier
Created(fn) ==
    /\ pc = fn
    /\ rState = "returned"
    /\ rFn = fn
    /\ rResult.data
    /\ rResult.id # 0

C22_CreationStepsOrdered ==
    /\ [](/\ "addNewAgent" \in issued =>
                {"generateAgent", "createNewAgent"} \subseteq issued
          /\ "addNewRequest" \in issued =>
                {"generateRequest", "createNewRequest"} \subseteq issued
          /\ "createNewAgent" \in issued => "generateAgent" \in issued
          /\ "createNewRequest" \in issued => "generateRequest" \in issued)
    /\ [][(pc' = "addNewAgent" /\ pc # "addNewAgent") => Created("createNewAgent")]_vars
    /\ [][(pc' = "addNewRequest" /\ pc # "addNewRequest") =>
              Created("createNewRequest")]_vars
    /\ [][\A k \in Tracked :
              accountsStats'[k].agents # accountsStats[k].agents =>
                  /\ k = i
                  /\ Registered("addNewAgent")
                  /\ accountsStats'[k].agents = accountsStats[k].agents + 1
                  /\ accountsStats'[k].txs = accountsStats[k].txs + 1]_vars
    /\ [][\A k \in Tracked :
              accountsStats'[k].requests # accountsStats[k].requests =>
                  /\ k = i
                  /\ Registered("addNewRequest")
                  /\ accountsStats'[k].requests = accountsStats[k].requests + 1
                  /\ accountsStats'[k].txs = accountsStats[k].txs + 1]_vars
    /\ [][\A k \in Tracked :
              accountsStats'[k].txs # accountsStats[k].txs =>
                  Registered("addNewAgent") \/ Registered("addNewRequest")]_vars
    /\ [][(pc \in {"addNewAgent", "addNewRequest"} /\ ~Registered(pc)) =>
              \A k \in Tracked :
                  /\ accountsStats'[k].agents = accountsStats[k].agents
                  /\ accountsStats'[k].requests = accountsStats[k].requests
                  /\ accountsStats'[k].txs = accountsStats[k].txs]_vars

\* the agent was created on the platform, its registration was rejected at
\* every attempt (an error, no agent, no transaction), and the request flow
\* then went through to its transaction
C22_Witness ==
    /\ pc = "getUserData"
    /\ {"addNewAgent", "addNewRequest"} \subseteq issued
    /\ accountsStats[i].agents = statsBefore[i].agents
    /\ accountsStats[i].requests = statsBefore[i].requests + 1
    /\ accountsStats[i].txs = statsBefore[i].txs + 1
    /\ accountsStats[i].errors = statsBefore[i].errors + 1

(***************************************************************************)
(* C23. The profile refresh is issued only in the step in which            *)
(* executeDailyTasks returns true (lastRun is set in that step), so never  *)
(* in a run whose authentication or task run failed; once it has returned  *)
(* the run is over, so it is issued once; a run completed after the        *)
(* refresh hands its session back to main with the errors of the account   *)
(* as they were and its record either refreshed or, when the refresh       *)
(* failed, with every field (uid, totalPoint, days among them) unchanged.  *)
(* Aside is the run whose logging threw out of the refresh.                *)
(***************************************************************************)
C23_RefreshOnlyAfterSuccess ==
    /\ [](/\ ("getUserData" \in issued /\ (pc = "getUserData" \/ JustReturned)) =>
                /\ "verifyDailyTask" \in issued
                /\ outcome \in {"running", "completed", "threw"}
                /\ accountsStats[i].lastRun # statsBefore[i].lastRun
          /\ (JustReturned /\ outcome \in {"authFailed", "statusThrew", "statusInvalid"}) =>
                "getUserData" \notin issued
          /\ pc = "getUserData" => rState = "idle" /\ ~IsNull(tokenData))
    /\ [][(pc' = "getUserData" /\ pc # "getUserData") =>
              /\ pc \in {"verifyDailyTask"} \cup AgentPcs \cup RequestPcs
              /\ "getUserData" \notin issued
              /\ accountsStats'[i].lastRun = Some(clock)]_vars
    /\ [][(pc = "getUserData" /\ pc' \notin {"getUserData", "exited"}) =>
              \/ /\ pc' \in {"pace", "summary"}
                 /\ finished'[i] = finished[i] + 1
                 /\ tokenDataArray'[i] = tokenData
              \/ outcome' = "rejected" /\ faults' > faults]_vars
    /\ [][(pc = "getUserData" /\ outcome' = "completed") =>
              /\ \/ accountsStats' = accountsStats /\ faults' > faults
                 \/ accountsStats' =
                       [accountsStats EXCEPT ![i] = WithUserData(@, UserData(i))]
              /\ accountsStats'[i].errors = accountsStats[i].errors
              /\ tokenDataArray'[i] = tokenData]_vars

\* the tasks of the account succeeded (an agent registered), the refresh
\* failed: no uid, no error, and the session is carried forward
C23_Witness ==
    /\ JustReturned
    /\ outcome = "completed"
    /\ "getUserData" \in issued
    /\ faults = faultsBefore + 1
    /\ accountsStats[i].agents = statsBefore[i].agents + 1
    /\ IsNull(accountsStats[i].uid)
    /\ accountsStats[i].errors = statsBefore[i].errors
    /\ ~IsNull(tokenDataArray[i])

(***************************************************************************)
(* C24. A step changes the stats record or the carried-forward session of  *)
(* an account only if that account is the one being processed (or the one  *)
(* processAccount is being called for); from the start of the run of       *)
(* account i to its return, whatever its outcome, the stats record of      *)
(* every other account is what it was when the run began.                  *)
(***************************************************************************)
C24_OtherAccountsUntouched ==
    /\ [](pc \notin {"start", "cycle", "account", "countdown", "recovery", "exited"} =>
              \A j \in Accounts \ {i} : accountsStats[j] = statsBefore[j])
    /\ [][\A j \in Tracked :
              (accountsStats'[j] # accountsStats[j] \/ tokenDataArray'[j] # tokenDataArray[j])
                  => (j = i /\ (InProgress(i) \/ pc = "account"))]_vars
    /\ [][\A j \in Tracked :
              (i' = i /\ (InProgress(i) \/ pc = "account") /\ j # i) =>
                  /\ accountsStats'[j] = accountsStats[j]
                  /\ tokenDataArray'[j] = tokenDataArray[j]]_vars

\* the run of the second account ended on a status fetch that threw (its
\* error counted); the first account keeps its two transactions and its
\* session
C24_Witness ==
    /\ pc = "summary"
    /\ i = 1
    /\ outcome = "statusThrew"
    /\ accountsStats[1].errors = statsBefore[1].errors + 1
    /\ accountsStats[0].txs = 2
    /\ accountsStats[0] = statsBefore[0]
    /\ ~IsNull(tokenDataArray[0])

(***************************************************************************)
(* C25. For every account with a stats record (every account, once the     *)
(* start-up is over), in every reachable state, txs = agents +             *)
(* requests: the counters start at zero, a step moves at most one of       *)
(* agents and requests, by one, and moves txs by one with it in that same  *)
(* step, and txs never moves otherwise; the statistics printed at exit     *)
(* satisfy the same equation.                                              *)
(***************************************************************************)
C25_TxsIsAgentsPlusRequests ==
    /\ [](/\ pc \notin {"start", "exited"} => Tracked = Accounts
          /\ \A k \in Tracked :
                accountsStats[k].txs = accountsStats[k].agents + accountsStats[k].requests
          /\ ~IsNull(report) =>
                \A k \in DOMAIN Val(report) :
                    Val(report)[k].txs = Val(report)[k].agents + Val(report)[k].requests)
    /\ [][\A k \in Tracked :
              LET da == accountsStats'[k].agents - accountsStats[k].agents
                  dr == accountsStats'[k].requests - accountsStats[k].requests
                  dt == accountsStats'[k].txs - accountsStats[k].txs
              IN  /\ <<da, dr, dt>> \in {<<0, 0, 0>>, <<1, 0, 1>>, <<0, 1, 1>>}
                  /\ da = 1 => pc = "addNewAgent"
                  /\ dr = 1 => pc = "addNewRequest"]_vars

\* over two cycles an account registered two agents and one request: three
\* transactions
C25_Witness ==
    /\ cycleCount = 2
    /\ accountsStats[0].agents = 2
    /\ accountsStats[0].requests = 1
    /\ accountsStats[0].txs = 3

====
